---- MODULE Spec2Model ----
(***************************************************************************)
(* Model of galaxy/tools/toolbox/managed_conf.py (ManagedConf: a JSON      *)
(* toolbox configuration file shared by independent callers, guarded by    *)
(* a content hash) and of galaxy/tools/toolbox/parser.py                   *)
(* (YamlToolConfSource._preprocess: inlining of groups into item lists).   *)
(*                                                                         *)
(* A Python dict is a function whose DOMAIN is its set of keys; a Python   *)
(* list is a sequence.  The file is a sequence of JSON tokens; a token is  *)
(* a pair <<kind, text>>.                                                  *)
(***************************************************************************)
EXTENDS Integers, Sequences, FiniteSets, TLC

(***************************************************************************)
(* Python dicts                                                            *)
(***************************************************************************)
EmptyDict == [k \in {} |-> TRUE]

HasKey(d, key) == key \in DOMAIN d

\* d[key] = v
SetKey(d, key, v) == [k \in (DOMAIN d) \cup {key} |-> IF k = key THEN v ELSE d[k]]

\* d.pop(key), the dict that is left
DelKey(d, key) == [k \in (DOMAIN d) \ {key} |-> d[k]]

\* list[i] = v
SetAt(list, i, v) == [list EXCEPT ![i] = v]

(***************************************************************************)
(* json.dump / json.loads over the documents of the model: dicts whose     *)
(* values are strings (type, name, id), booleans (enabled) or lists of     *)
(* dicts (items, groups).                                                  *)
(***************************************************************************)
LBrace == <<"{", "">>
RBrace == <<"}", "">>
LBracket == <<"[", "">>
RBracket == <<"]", "">>
Colon == <<":", "">>
Comma == <<",", "">>
StrTok(s) == <<"str", s>>
BoolTok(b) == IF b THEN <<"true", "">> ELSE <<"false", "">>

\* the order in which json.dump emits the keys of a dict
KeyOrder == <<"type", "name", "id", "enabled", "items", "groups">>
ListKeys == {"items", "groups"}
BoolKeys == {"enabled"}

PresentKeys(d) == SelectSeq(KeyOrder, LAMBDA k : k \in DOMAIN d)

RECURSIVE json_dump_dict(_), json_dump_list(_), json_dump_members(_, _)

json_dump_value(key, v) ==
    IF key \in ListKeys THEN json_dump_list(v)
    ELSE IF key \in BoolKeys THEN <<BoolTok(v)>>
    ELSE <<StrTok(v)>>

json_dump_members(d, ks) ==
    IF ks = <<>> THEN <<>>
    ELSE <<StrTok(Head(ks)), Colon>> \o json_dump_value(Head(ks), d[Head(ks)])
         \o (IF Len(ks) > 1 THEN <<Comma>> ELSE <<>>)
         \o json_dump_members(d, Tail(ks))

json_dump_dict(d) == <<LBrace>> \o json_dump_members(d, PresentKeys(d)) \o <<RBrace>>

json_dump_list(l) ==
    <<LBracket>>
    \o (IF l = <<>> THEN <<>>
        ELSE json_dump_dict(l[1])
             \o (IF Len(l) > 1 THEN <<Comma>> \o SubSeq(json_dump_list(Tail(l)), 2, Len(json_dump_list(Tail(l))) - 1)
                 ELSE <<>>))
    \o <<RBracket>>

\* json.dump(as_dict, f): the tokens written
json_dump(as_dict) == json_dump_dict(as_dict)

\* A parse result: ok, the value, the position after it.
ParseFail == [ok |-> FALSE, val |-> <<>>, next |-> 0]
ParseOk(v, n) == [ok |-> TRUE, val |-> v, next |-> n]
Kind(t, p) == IF p <= Len(t) THEN t[p][1] ELSE "eof"

RECURSIVE ParseValue(_, _), ParseMembers(_, _, _), ParseElements(_, _, _)

\* after "{" or ",": a member  "key" : value  then "," or "}".  The value
\* is parsed once: v ranges over the one result of ParseValue.
ParseMembers(t, p, acc) ==
    IF Kind(t, p) # "str" \/ Kind(t, p + 1) # ":" THEN ParseFail
    ELSE CHOOSE out \in
            { IF ~v.ok THEN ParseFail
              ELSE IF Kind(t, v.next) = ","
                   THEN ParseMembers(t, v.next + 1, SetKey(acc, t[p][2], v.val))
              ELSE IF Kind(t, v.next) = "}"
                   THEN ParseOk(SetKey(acc, t[p][2], v.val), v.next + 1)
              ELSE ParseFail : v \in {ParseValue(t, p + 2)} } : TRUE

\* after "[" or ",": an element then "," or "]"
ParseElements(t, p, acc) ==
    CHOOSE out \in
        { IF ~v.ok THEN ParseFail
          ELSE IF Kind(t, v.next) = "," THEN ParseElements(t, v.next + 1, Append(acc, v.val))
          ELSE IF Kind(t, v.next) = "]" THEN ParseOk(Append(acc, v.val), v.next + 1)
          ELSE ParseFail : v \in {ParseValue(t, p)} } : TRUE

ParseValue(t, p) ==
    CASE Kind(t, p) = "str" -> ParseOk(t[p][2], p + 1)
      [] Kind(t, p) = "true" -> ParseOk(TRUE, p + 1)
      [] Kind(t, p) = "false" -> ParseOk(FALSE, p + 1)
      [] Kind(t, p) = "{" ->
            IF Kind(t, p + 1) = "}" THEN ParseOk(EmptyDict, p + 2)
            ELSE ParseMembers(t, p + 1, EmptyDict)
      [] Kind(t, p) = "[" ->
            IF Kind(t, p + 1) = "]" THEN ParseOk(<<>>, p + 2)
            ELSE ParseElements(t, p + 1, <<>>)
      [] OTHER -> ParseFail

\* json.loads(contents): ok is FALSE where json.loads raises ValueError
\* (no JSON value, or extra data after it)
json_loads(contents) ==
    CHOOSE out \in
        { IF v.ok /\ v.next = Len(contents) + 1 THEN v ELSE ParseFail :
              v \in {ParseValue(contents, 1)} } : TRUE

(***************************************************************************)
(* hashlib.md5(contents).hexdigest(): a fixed-size digest of the exact     *)
(* content, here two words computed from the tokens.                       *)
(***************************************************************************)
Vocabulary ==
    <<"{", "}", "[", "]", ":", ",", "true", "false", "str", "",
      "type", "name", "id", "enabled", "items", "groups",
      "section", "tool", "A", "B", "nA", "nB", "t1", "g1", "g2", "x", "y", "z">>

\* each word of the vocabulary has a code, its place in the vocabulary
CodeTable ==
    [s \in {Vocabulary[i] : i \in 1..Len(Vocabulary)} |->
        CHOOSE i \in 1..Len(Vocabulary) : Vocabulary[i] = s]

Code(s) == CodeTable[s]

\* A word of the digest is the tokens read as the digits of a number in
\* base mult, modulo modulus.  Digest gives, for tokens lo..hi of c, that
\* number (h) and mult to the number of digits (p), the two halves of the
\* range being put together as  left * p(right) + right.
RECURSIVE Digest(_, _, _, _, _)
Digest(c, lo, hi, mult, modulus) ==
    IF lo = hi THEN
        [h |-> (Code(c[lo][1]) * mult + Code(c[lo][2])) % modulus, p |-> (mult * mult) % modulus]
    ELSE CHOOSE out \in
            { [h |-> (left.h * right.p + right.h) % modulus, p |-> (left.p * right.p) % modulus] :
                  left \in {Digest(c, lo, (lo + hi) \div 2, mult, modulus)},
                  right \in {Digest(c, (lo + hi) \div 2 + 1, hi, mult, modulus)} } : TRUE

Word(c, mult, modulus) == IF c = <<>> THEN 0 ELSE Digest(c, 1, Len(c), mult, modulus).h

_hash(contents) == <<Word(contents, 31, 46337), Word(contents, 37, 46327)>>

(***************************************************************************)
(* The action interpreter.  A method returns [err, doc]: err is "" when    *)
(* it returns normally and the name of the exception when it raises; doc   *)
(* is as_dict as the method leaves it (as_dict is mutated in place).       *)
(***************************************************************************)
Returns(doc) == [err |-> "", doc |-> doc]
Raises(e, doc) == [err |-> e, doc |-> doc]

Min(S) == CHOOSE i \in S : \A j \in S : i <= j

\* [err, idx]: idx is the index of the first item whose id is id, 0 for None;
\* item["id"] raises KeyError on an item without id that the scan reaches
_find_with_id(items, id) ==
    LET stops == {i \in 1..Len(items) : ~HasKey(items[i], "id") \/ items[i]["id"] = id} IN
    IF stops = {} THEN [err |-> "", idx |-> 0]
    ELSE IF ~HasKey(items[Min(stops)], "id") THEN [err |-> "KeyError", idx |-> 0]
    ELSE [err |-> "", idx |-> Min(stops)]

_ensure_has_list(as_dict, key) ==
    IF HasKey(as_dict, key) THEN as_dict ELSE SetKey(as_dict, key, <<>>)

_ensure_has_items(as_dict) == _ensure_has_list(as_dict, "items")

\* as_dict["items"] raises KeyError when the document has no item list
_target_to_section(as_dict, target) ==
    IF ~HasKey(as_dict, "items") THEN [err |-> "KeyError", idx |-> 0]
    ELSE _find_with_id(as_dict["items"], target["section"])

_target_to_group(as_dict, target) ==
    IF ~HasKey(as_dict, "groups") THEN [err |-> "KeyError", idx |-> 0]
    ELSE _find_with_id(as_dict["groups"], target["group"])

\* the dict found at as_dict[key][idx] gets item appended to its item list;
\* with None found, _ensure_has_items(None) raises TypeError
AppendInto(as_dict, key, found, item) ==
    IF found.err # "" THEN Raises(found.err, as_dict)
    ELSE IF found.idx = 0 THEN Raises("TypeError", as_dict)
    ELSE LET owner == _ensure_has_items(as_dict[key][found.idx]) IN
         Returns(SetKey(as_dict, key,
                        SetAt(as_dict[key], found.idx,
                              SetKey(owner, "items", Append(owner["items"], item)))))

\* kw holds the keyword arguments; target is None when kw has no target
_add_item(as_dict, kw) ==
    IF ~HasKey(kw, "target") THEN
        LET d == _ensure_has_items(as_dict) IN
        Returns(SetKey(d, "items", Append(d["items"], kw["item"])))
    ELSE IF HasKey(kw["target"], "group") THEN
        AppendInto(as_dict, "groups", _target_to_group(as_dict, kw["target"]), kw["item"])
    ELSE IF HasKey(kw["target"], "section") THEN
        AppendInto(as_dict, "items", _target_to_section(as_dict, kw["target"]), kw["item"])
    ELSE Raises("Exception", as_dict)

_create_section(as_dict, kw) ==
    LET d == _ensure_has_items(as_dict) IN
    Returns(SetKey(d, "items",
                   Append(d["items"],
                          [type |-> "section", name |-> kw["name"], id |-> kw["id"], items |-> <<>>])))

_create_group(as_dict, kw) ==
    LET d == _ensure_has_list(as_dict, "groups") IN
    Returns(SetKey(d, "groups", Append(d["groups"], [id |-> kw["id"], items |-> <<>>])))

\* _disable that does nothing for a target without group key
_disable_ignoring_other_targets(as_dict, kw) ==
    IF HasKey(kw["target"], "group") THEN
        LET found == _target_to_group(as_dict, kw["target"]) IN
        IF found.err # "" THEN Raises(found.err, as_dict)
        ELSE IF found.idx = 0 THEN Raises("TypeError", as_dict)
        ELSE Returns(SetKey(as_dict, "groups",
                            SetAt(as_dict["groups"], found.idx,
                                  SetKey(as_dict["groups"][found.idx], "enabled", FALSE))))
    ELSE Returns(as_dict)

\* group_dict["enabled"] = False raises TypeError when group_dict is None
_disable(as_dict, kw) ==
    IF HasKey(kw["target"], "group") THEN
        LET found == _target_to_group(as_dict, kw["target"]) IN
        IF found.err # "" THEN Raises(found.err, as_dict)
        ELSE IF found.idx = 0 THEN Raises("TypeError", as_dict)
        ELSE Returns(SetKey(as_dict, "groups",
                            SetAt(as_dict["groups"], found.idx,
                                  SetKey(as_dict["groups"][found.idx], "enabled", FALSE))))
    ELSE Raises("Exception", as_dict)

KnownActions == {"add_item", "create_group", "disable", "create_section"}

\* method(as_dict, **action_dict) raises TypeError unless the keywords fit
\* the method's parameters
KeywordsFit(action, kw) ==
    CASE action = "add_item" -> {"item"} \subseteq DOMAIN kw /\ DOMAIN kw \subseteq {"item", "target"}
      [] action = "create_group" -> DOMAIN kw = {"id"}
      [] action = "create_section" -> DOMAIN kw = {"id", "name"}
      [] action = "disable" -> DOMAIN kw = {"target"}

\* _handle_action without its assert, an unknown action doing nothing
_handle_action_unchecked(as_dict, action_dict) ==
    IF ~HasKey(action_dict, "action") THEN
        [err |-> "KeyError", doc |-> as_dict, action_dict |-> action_dict]
    ELSE LET action == action_dict["action"]
             kw == DelKey(action_dict, "action")
             r == IF action \notin KnownActions THEN Returns(as_dict)
                  ELSE IF ~KeywordsFit(action, kw) THEN Raises("TypeError", as_dict)
                  ELSE CASE action = "add_item" -> _add_item(as_dict, kw)
                         [] action = "create_group" -> _create_group(as_dict, kw)
                         [] action = "create_section" -> _create_section(as_dict, kw)
                         [] action = "disable" -> _disable(as_dict, kw)
         IN [err |-> r.err, doc |-> r.doc, action_dict |-> kw]

\* [err, doc, action_dict]: action_dict.pop("action") takes the key out of
\* the caller's dict, and raises KeyError when it is not there
_handle_action(as_dict, action_dict) ==
    IF ~HasKey(action_dict, "action") THEN
        [err |-> "KeyError", doc |-> as_dict, action_dict |-> action_dict]
    ELSE LET action == action_dict["action"]
             kw == DelKey(action_dict, "action")
             r == IF action \notin KnownActions THEN Raises("AssertionError", as_dict)
                  ELSE IF ~KeywordsFit(action, kw) THEN Raises("TypeError", as_dict)
                  ELSE CASE action = "add_item" -> _add_item(as_dict, kw)
                         [] action = "create_group" -> _create_group(as_dict, kw)
                         [] action = "create_section" -> _create_section(as_dict, kw)
                         [] action = "disable" -> _disable(as_dict, kw)
         IN [err |-> r.err, doc |-> r.doc, action_dict |-> kw]

\* items of the documents of the model
Tool(id) == [type |-> "tool", id |-> id]
Section(id, name) == [type |-> "section", name |-> name, id |-> id, items |-> <<>>]

(***************************************************************************)
(* YamlToolConfSource._preprocess: groups are inlined into the item lists. *)
(* While a list is rewritten its elements carry the position they had in   *)
(* the list when the loop started (orig, 0 for an inserted element): the   *)
(* loop walks a copy of the list whose elements are the same objects.      *)
(***************************************************************************)
Ref(id) == [type |-> "group", id |-> id]
SectionOf(id, items) == [type |-> "section", id |-> id, items |-> items]
GroupDef(id, items) == [id |-> id, items |-> items]
DisabledGroupDef(id, items) == [id |-> id, items |-> items, enabled |-> FALSE]

\* item.get(key), "None" for a missing key
Get(item, key) == IF HasKey(item, key) THEN item[key] ELSE "None"

Tagged(items) == [i \in 1..Len(items) |-> [val |-> items[i], orig |-> i]]
Untagged(cur) == [i \in 1..Len(cur) |-> cur[i].val]

\* group_map with no look at enabled: every group keeps its items
group_map_ignoring_enabled(groups) ==
    [id \in {groups[i]["id"] : i \in 1..Len(groups)} |->
        groups[CHOOSE i \in 1..Len(groups) :
                   /\ groups[i]["id"] = id
                   /\ \A j \in (i + 1)..Len(groups) : groups[j]["id"] # id]["items"]]

\* group_map after the loop over groups: a later definition of an id replaces
\* an earlier one, a group that is not enabled has no items
group_map(groups) ==
    [id \in {groups[i]["id"] : i \in 1..Len(groups)} |->
        LET last == CHOOSE i \in 1..Len(groups) :
                        /\ groups[i]["id"] = id
                        /\ \A j \in (i + 1)..Len(groups) : groups[j]["id"] # id
        IN IF HasKey(groups[last], "enabled") /\ ~groups[last]["enabled"]
           THEN <<>>
           ELSE groups[last]["items"]]

\* items.insert(i, x): i counts from 0, past the end it appends
list_insert(cur, i, x) ==
    IF i >= Len(cur) THEN Append(cur, x)
    ELSE SubSeq(cur, 1, i) \o <<x>> \o SubSeq(cur, i + 1, Len(cur))

\* items.remove(item): the first element equal to item goes
list_remove(cur, item) ==
    LET first == Min({i \in 1..Len(cur) : cur[i].val = item}) IN
    SubSeq(cur, 1, first - 1) \o SubSeq(cur, first + 1, Len(cur))

\* for group_item in group_items: items.insert(current_offset +
\* iteration_offset - 1, group_item); iteration_offset += 1
RECURSIVE InsertGroupItems(_, _, _, _)
InsertGroupItems(cur, group_items, iteration_offset, current_offset) ==
    IF iteration_offset > Len(group_items) THEN cur
    ELSE InsertGroupItems(
            list_insert(cur, current_offset + iteration_offset - 1,
                        [val |-> group_items[iteration_offset], orig |-> 0]),
            group_items, iteration_offset + 1, current_offset)

\* what current_offset grows by after a group of n items was inlined:
\* iteration_offset starts at 1 and grows by one for each item
OffsetAfterGroup(n) == 1 + n

\* the element of the list that item k of the copy is; a section is changed
\* in place, and is never removed
ItemNow(cur, snapshot, k) ==
    IF \E i \in 1..Len(cur) : cur[i].orig = k
    THEN cur[CHOOSE i \in 1..Len(cur) : cur[i].orig = k].val
    ELSE snapshot[k]

RECURSIVE replace_groups_in_items(_, _), ReplaceLoop(_, _, _, _, _)

\* replace_groups_in_items with  items = self._ensure_has_items(as_dict)
replace_groups_in_items_creating(as_dict, gm) ==
    LET d == _ensure_has_items(as_dict)
        r == ReplaceLoop(Tagged(d["items"]), d["items"], 1, 0, gm)
    IN [err |-> r.err, doc |-> SetKey(d, "items", Untagged(r.items))]

\* for index, item in enumerate(items[:]), from item k on; [err, items]
ReplaceLoop(cur, snapshot, k, current_offset, gm) ==
    IF k > Len(snapshot) THEN [err |-> "", items |-> cur]
    ELSE LET item == ItemNow(cur, snapshot, k)
             item_type == Get(item, "type")
         IN
         IF item_type = "group" THEN
             IF Get(item, "id") \notin DOMAIN gm THEN [err |-> "KeyError", items |-> cur]
             ELSE IF \A i \in 1..Len(cur) : cur[i].val # item THEN [err |-> "ValueError", items |-> cur]
             ELSE LET group_items == gm[item["id"]] IN
                  ReplaceLoop(InsertGroupItems(list_remove(cur, item), group_items, 1, current_offset),
                              snapshot, k + 1, current_offset + OffsetAfterGroup(Len(group_items)), gm)
         ELSE IF item_type = "section" THEN
             LET r == replace_groups_in_items(item, gm)
                 at == CHOOSE i \in 1..Len(cur) : cur[i].orig = k
             IN IF r.err # "" THEN [err |-> r.err, items |-> SetAt(cur, at, [val |-> r.doc, orig |-> k])]
                ELSE ReplaceLoop(SetAt(cur, at, [val |-> r.doc, orig |-> k]),
                                 snapshot, k + 1, current_offset + 1, gm)
         ELSE ReplaceLoop(cur, snapshot, k + 1, current_offset + 1, gm)

\* [err, doc]: as_dict.get("items", []) is a new list when there is no key
replace_groups_in_items(as_dict, gm) ==
    IF ~HasKey(as_dict, "items") THEN Returns(as_dict)
    ELSE LET r == ReplaceLoop(Tagged(as_dict["items"]), as_dict["items"], 1, 0, gm) IN
         [err |-> r.err, doc |-> SetKey(as_dict, "items", Untagged(r.items))]

\* [err, doc]: groups = as_dict.pop("groups", []), then the replacement
_preprocess(as_dict) ==
    replace_groups_in_items(DelKey(as_dict, "groups"),
                            group_map(IF HasKey(as_dict, "groups") THEN as_dict["groups"] ELSE <<>>))

\* longest item list of a raw document
MaxItems == 3

RECURSIVE ListsUpTo(_, _)
ListsUpTo(S, n) ==
    IF n = 0 THEN {<<>>}
    ELSE ListsUpTo(S, n - 1) \cup {Append(l, x) : l \in {m \in ListsUpTo(S, n - 1) : Len(m) = n - 1}, x \in S}

\* items of the raw documents; the last one is a section without item list
RawItems ==
    {Ref("g1"), Ref("g2"), Tool("x"), SectionOf("A", <<Ref("g1"), Tool("y"), Ref("g2"), Tool("z")>>),
     [type |-> "section", id |-> "w"]}

\* group tables of the raw documents: the third one does not define g2, in
\* the last two a group has a group reference, or a section with one, among
\* its own items
RawGroups ==
    { <<GroupDef("g1", <<Tool("A")>>), GroupDef("g2", <<Tool("B")>>)>>,
      <<DisabledGroupDef("g1", <<Tool("A")>>), GroupDef("g2", <<Tool("B"), Tool("t1")>>)>>,
      <<GroupDef("g1", <<Tool("A")>>)>>,
      <<GroupDef("g1", <<Ref("g2")>>), GroupDef("g2", <<Tool("B")>>)>>,
      <<GroupDef("g1", <<SectionOf("C", <<Ref("g2")>>)>>), GroupDef("g2", <<Tool("B")>>)>> }

\* an item of type group is in the list, or in a section of it at any depth
RECURSIVE HasGroupRef(_)
HasGroupRef(items) ==
    /\ items # <<>>
    /\ \/ Get(Head(items), "type") = "group"
       \/ HasKey(Head(items), "items") /\ HasGroupRef(Head(items)["items"])
       \/ HasGroupRef(Tail(items))

\* what yaml.load gives YamlToolConfSource.__init__: documents with a group
\* table, and documents with neither group table nor group reference
RawDocs ==
    {[items |-> l, groups |-> g] : l \in ListsUpTo(RawItems, MaxItems), g \in RawGroups}
    \cup {[items |-> l] : l \in ListsUpTo({i \in RawItems : ~HasGroupRef(<<i>>)}, MaxItems)}

(***************************************************************************)
(* ManagedConf shared by independent callers.  Each caller runs one        *)
(* method at a time; a step is one access to the file.                     *)
(***************************************************************************)
Callers == {"a", "b"}

\* method calls started, over all callers
MaxCalls == 2

\* the default of update's previous_hash, an object() equal to no digest
FORCE_WRITE == <<-1, -1>>
\* for replaced: nothing opened for writing yet / no file was there
NotWritten == <<-3, -3>>
Absent == <<-2, -2>>

\* documents passed to update
UpdateDocs ==
    { [items |-> <<Tool("t1")>>],
      [items |-> <<Section("A", "nA")>>, groups |-> <<[id |-> "g1", items |-> <<>>, enabled |-> FALSE]>>] }

\* expected versions passed to update: none, or the hash read() gives for {}
UpdateVersions == {FORCE_WRITE, _hash(json_dump(EmptyDict))}

create_section(id, name) == [action |-> "create_section", id |-> id, name |-> name]
add_item(item) == [action |-> "add_item", item |-> item]
add_item_to(item, target) == [action |-> "add_item", item |-> item, target |-> target]

create_group(id) == [action |-> "create_group", id |-> id]
disable(target) == [action |-> "disable", target |-> target]

\* batches passed to handle_actions
Batches ==
    { <<create_section("A", "nA")>>,
      <<create_section("B", "nB")>>,
      <<create_section("A", "nA"), [action |-> "bogus"]>>,
      <<add_item(Tool("t1"))>>,
      <<add_item_to(Tool("B"), [section |-> "t1"])>> }

VARIABLES
    file,           \* the file at self.path: [exists, data]
    pc,             \* where each caller is in its method
    op,             \* the method each caller runs, or ran last
    as_dict,        \* update's as_dict; handle_actions' as_dict
    previous_hash,  \* update's previous_hash; handle_actions' previous_hash
    actions,        \* handle_actions' actions: the caller's list of dicts
    idx,            \* position of handle_actions' for loop in actions
    result,         \* how the method ended: [err, hash, doc]
    calls,          \* method calls started so far
    batch,          \* history: actions as passed to handle_actions
    read_doc,       \* history: the document read() gave the current attempt
    conflicts,      \* history: ConcurrentWriteExceptions caught by the call
    replaced,       \* history: version of what the call's open(path, "w") truncated
    fresh,          \* history: previous_hash was the file's version at the call
    alone,          \* history: no other caller changed the file since the call
    raw,            \* what yaml.load gave YamlToolConfSource.__init__
    source,         \* the YamlToolConfSource: [state, as_dict]
    inlined,        \* history: as_dict as the first _preprocess left it
    touched,        \* history: place in the item list of the item changed later
    interp          \* the loop over a batch on its own: [state, batch, start, before, doc, action, todo, err]

confVars == <<file, pc, op, as_dict, previous_hash, actions, idx, result, calls,
              batch, read_doc, conflicts, replaced, fresh, alone>>
sourceVars == <<raw, source, inlined, touched>>
interpVars == <<interp>>
vars == <<confVars, sourceVars, interpVars>>

NoResult == [err |-> "", hash |-> NotWritten, doc |-> EmptyDict]

Version(f) == IF f.exists THEN _hash(f.data) ELSE Absent

\* open(self.path, "r+"): the file keeps its content
OpenWithoutTruncating(f) == [exists |-> TRUE, data |-> f.data]

\* open(self.path, "w"): the file exists and is empty
OpenForWriting(f) == [exists |-> TRUE, data |-> <<>>]

\* what f.write + close leave in a file opened with "w": the data at offset 0,
\* followed by whatever another writer put beyond it in the meantime
WriteAtStart(f, data) ==
    [exists |-> TRUE, data |-> data \o SubSeq(f.data, Len(data) + 1, Len(f.data))]

ConfInit ==
    /\ file \in {[exists |-> FALSE, data |-> <<>>], [exists |-> TRUE, data |-> json_dump(EmptyDict)]}
    /\ pc = [c \in Callers |-> "idle"]
    /\ op = [c \in Callers |-> "none"]
    /\ as_dict = [c \in Callers |-> EmptyDict]
    /\ previous_hash = [c \in Callers |-> FORCE_WRITE]
    /\ actions = [c \in Callers |-> <<>>]
    /\ idx = [c \in Callers |-> 0]
    /\ result = [c \in Callers |-> NoResult]
    /\ calls = 0
    /\ batch = [c \in Callers |-> <<>>]
    /\ read_doc = [c \in Callers |-> EmptyDict]
    /\ conflicts = [c \in Callers |-> 0]
    /\ replaced = [c \in Callers |-> NotWritten]
    /\ fresh = [c \in Callers |-> FALSE]
    /\ alone = [c \in Callers |-> TRUE]

\* no YamlToolConfSource is being built
NoSource ==
    /\ raw = EmptyDict
    /\ source = [state |-> "none", as_dict |-> EmptyDict]
    /\ inlined = EmptyDict
    /\ touched = 0

\* no batch is being applied outside handle_actions
NoInterp ==
    interp = [state |-> "none", batch |-> <<>>, start |-> EmptyDict, before |-> EmptyDict,
              doc |-> EmptyDict, action |-> EmptyDict, todo |-> <<>>, err |-> ""]

Init == ConfInit /\ NoSource /\ NoInterp

\* a caller starts method m at step first with the given arguments
Call(c, m, first, doc, version, acts) ==
    /\ pc[c] \in {"idle", "done"}
    /\ calls < MaxCalls
    /\ calls' = calls + 1
    /\ op' = [op EXCEPT ![c] = m]
    /\ pc' = [pc EXCEPT ![c] = first]
    /\ as_dict' = [as_dict EXCEPT ![c] = doc]
    /\ previous_hash' = [previous_hash EXCEPT ![c] = version]
    /\ actions' = [actions EXCEPT ![c] = acts]
    /\ batch' = [batch EXCEPT ![c] = acts]
    /\ idx' = [idx EXCEPT ![c] = 0]
    /\ result' = [result EXCEPT ![c] = NoResult]
    /\ read_doc' = [read_doc EXCEPT ![c] = EmptyDict]
    /\ conflicts' = [conflicts EXCEPT ![c] = 0]
    /\ replaced' = [replaced EXCEPT ![c] = NotWritten]
    /\ fresh' = [fresh EXCEPT ![c] = (version # FORCE_WRITE /\ Version(file) = version)]
    /\ alone' = [alone EXCEPT ![c] = TRUE]
    /\ UNCHANGED file

Call_read(c) ==
    /\ Call(c, "read", "read", EmptyDict, FORCE_WRITE, <<>>)
    /\ UNCHANGED <<sourceVars, interpVars, interpVars>>

Call_update(c) ==
    /\ \E doc \in UpdateDocs, version \in UpdateVersions :
           Call(c, "update", IF version # FORCE_WRITE THEN "update_check" ELSE "update_open",
                doc, version, <<>>)
    /\ UNCHANGED <<sourceVars, interpVars, interpVars>>

Call_ensure_exists(c) ==
    /\ Call(c, "ensure_exists", "exists_check", EmptyDict, FORCE_WRITE, <<>>)
    /\ UNCHANGED <<sourceVars, interpVars, interpVars>>

Call_handle_actions(c) ==
    /\ \E acts \in Batches : Call(c, "handle_actions", "exists_check", EmptyDict, FORCE_WRITE, acts)
    /\ UNCHANGED <<sourceVars, interpVars, interpVars>>

\* the method returns (err = "") or raises err
Finish(c, err, hash, doc) ==
    /\ pc' = [pc EXCEPT ![c] = "done"]
    /\ result' = [result EXCEPT ![c] = [err |-> err, hash |-> hash, doc |-> doc]]

\* a step of caller c that changes the file
Writes(c, f) ==
    /\ file' = f
    /\ alone' = [d \in Callers |-> IF d = c THEN alone[d] ELSE FALSE]

\* after ensure_exists: its caller returns, handle_actions goes on to read()
AfterEnsure(c) ==
    IF op[c] = "ensure_exists"
    THEN Finish(c, "", NotWritten, EmptyDict)
    ELSE pc' = [pc EXCEPT ![c] = "read"] /\ UNCHANGED result

\* ensure_exists: if not os.path.exists(self.path)
ExistsCheck(c) ==
    /\ pc[c] = "exists_check"
    /\ IF file.exists THEN AfterEnsure(c)
       ELSE pc' = [pc EXCEPT ![c] = "ensure_open"] /\ UNCHANGED result
    /\ UNCHANGED <<sourceVars, interpVars, file, op, as_dict, previous_hash, actions, idx, calls,
                   batch, read_doc, conflicts, replaced, fresh, alone>>

\* ensure_exists: with open(self.path, "w") as f
EnsureOpen(c) ==
    /\ pc[c] = "ensure_open"
    /\ Writes(c, OpenForWriting(file))
    /\ replaced' = [replaced EXCEPT ![c] = Version(file)]
    /\ pc' = [pc EXCEPT ![c] = "ensure_write"]
    /\ UNCHANGED <<sourceVars, interpVars, op, as_dict, previous_hash, actions, idx, result, calls,
                   batch, read_doc, conflicts, fresh>>

\* ensure_exists: f.write("{}") and the close that flushes it
EnsureWrite(c) ==
    /\ pc[c] = "ensure_write"
    /\ Writes(c, WriteAtStart(file, <<LBrace, RBrace>>))
    /\ AfterEnsure(c)
    /\ UNCHANGED <<sourceVars, interpVars, op, as_dict, previous_hash, actions, idx, calls,
                   batch, read_doc, conflicts, replaced, fresh>>

\* read(): (self._hash(contents), json.loads(contents)) of self._contents;
\* open(self.path, "r") raises IOError without a file
read(f) ==
    IF ~f.exists THEN [err |-> "IOError", hash |-> NotWritten, doc |-> EmptyDict]
    ELSE CHOOSE out \in
            { IF ~loaded.ok THEN [err |-> "ValueError", hash |-> NotWritten, doc |-> EmptyDict]
              ELSE [err |-> "", hash |-> _hash(f.data), doc |-> loaded.val] :
                  loaded \in {json_loads(f.data)} } : TRUE

\* read() called directly, or by an attempt of handle_actions
Read(c) ==
    /\ pc[c] = "read"
    /\ \E r \in {read(file)} :
       IF op[c] = "read" \/ r.err # ""
       THEN /\ Finish(c, r.err, r.hash, r.doc)
            /\ UNCHANGED <<as_dict, previous_hash, idx, read_doc, replaced>>
       ELSE /\ previous_hash' = [previous_hash EXCEPT ![c] = r.hash]
            /\ as_dict' = [as_dict EXCEPT ![c] = r.doc]
            /\ read_doc' = [read_doc EXCEPT ![c] = r.doc]
            /\ replaced' = [replaced EXCEPT ![c] = NotWritten]
            /\ idx' = [idx EXCEPT ![c] = 1]
            /\ pc' = [pc EXCEPT ![c] = IF actions[c] = <<>> THEN "update_check" ELSE "apply"]
            /\ UNCHANGED result
    /\ UNCHANGED <<sourceVars, interpVars, file, op, actions, calls, batch, conflicts, fresh, alone>>

\* handle_actions with  except Exception: pass  around each action
AfterActionSwallowing(err, i, n) == IF i = n THEN "update_check" ELSE "apply"

\* handle_actions after self._handle_action(as_dict, action) for the action
\* at position i of n: an exception leaves the method, the last action leads
\* to self.update(as_dict, previous_hash)
AfterAction(err, i, n) ==
    IF err # "" THEN "done"
    ELSE IF i = n THEN "update_check"
    ELSE "apply"

\* handle_actions: one round of  for action in actions
HandleAction(c) ==
    /\ pc[c] = "apply"
    /\ LET r == _handle_action(as_dict[c], actions[c][idx[c]]) IN
       /\ as_dict' = [as_dict EXCEPT ![c] = r.doc]
       /\ actions' = [actions EXCEPT ![c] = SetAt(actions[c], idx[c], r.action_dict)]
       /\ pc' = [pc EXCEPT ![c] = AfterAction(r.err, idx[c], Len(actions[c]))]
       /\ result' = [result EXCEPT ![c] = [err |-> r.err, hash |-> NotWritten, doc |-> EmptyDict]]
       /\ idx' = [idx EXCEPT ![c] = IF r.err # "" THEN idx[c] ELSE idx[c] + 1]
    /\ UNCHANGED <<sourceVars, interpVars, file, op, previous_hash, calls, batch, read_doc, conflicts,
                   replaced, fresh, alone>>

\* update: previous_hash != current_hash
Conflict(expected, f) == expected # _hash(f.data)

\* update: the check made unless previous_hash is FORCE_WRITE.  handle_actions
\* catches ConcurrentWriteException and starts its loop again.
UpdateCheck(c) ==
    /\ pc[c] = "update_check"
    /\ IF ~file.exists THEN
            Finish(c, "IOError", NotWritten, EmptyDict) /\ UNCHANGED conflicts
       ELSE IF Conflict(previous_hash[c], file) THEN
            IF op[c] = "handle_actions"
            THEN /\ pc' = [pc EXCEPT ![c] = "read"]
                 /\ conflicts' = [conflicts EXCEPT ![c] = conflicts[c] + 1]
                 /\ UNCHANGED result
            ELSE Finish(c, "ConcurrentWriteException", NotWritten, EmptyDict) /\ UNCHANGED conflicts
       ELSE pc' = [pc EXCEPT ![c] = "update_open"] /\ UNCHANGED <<result, conflicts>>
    /\ UNCHANGED <<sourceVars, interpVars, file, op, as_dict, previous_hash, actions, idx, calls,
                   batch, read_doc, replaced, fresh, alone>>

\* update: with open(self.path, "w") as f
UpdateOpen(c) ==
    /\ pc[c] = "update_open"
    /\ Writes(c, OpenForWriting(file))
    /\ replaced' = [replaced EXCEPT ![c] = Version(file)]
    /\ pc' = [pc EXCEPT ![c] = "update_write"]
    /\ UNCHANGED <<sourceVars, interpVars, op, as_dict, previous_hash, actions, idx, result, calls,
                   batch, read_doc, conflicts, fresh>>

\* update: json.dump(as_dict, f) and the close that flushes it
UpdateWrite(c) ==
    /\ pc[c] = "update_write"
    /\ Writes(c, WriteAtStart(file, json_dump(as_dict[c])))
    /\ Finish(c, "", NotWritten, EmptyDict)
    /\ UNCHANGED <<sourceVars, interpVars, op, as_dict, previous_hash, actions, idx, calls,
                   batch, read_doc, conflicts, replaced, fresh>>

Next ==
    \E c \in Callers :
        \/ Call_read(c)
        \/ Call_update(c)
        \/ Call_ensure_exists(c)
        \/ Call_handle_actions(c)
        \/ ExistsCheck(c)
        \/ EnsureOpen(c)
        \/ EnsureWrite(c)
        \/ Read(c)
        \/ HandleAction(c)
        \/ UpdateCheck(c)
        \/ UpdateOpen(c)
        \/ UpdateWrite(c)

Spec == Init /\ [][Next]_vars

(***************************************************************************)
(* Concurrent handle_actions calls and no other writer.  A caller that is  *)
(* inside a method goes on with it: each caller is a running process.      *)
(***************************************************************************)
\* the next step of the method caller c is in
Step(c) ==
    \/ ExistsCheck(c)
    \/ EnsureOpen(c)
    \/ EnsureWrite(c)
    \/ Read(c)
    \/ HandleAction(c)
    \/ UpdateCheck(c)
    \/ UpdateOpen(c)
    \/ UpdateWrite(c)

RetryNext == \E c \in Callers : Call_handle_actions(c) \/ Step(c)

RetrySpec == Init /\ [][RetryNext]_vars /\ \A c \in Callers : WF_vars(Step(c))

(***************************************************************************)
(* YamlToolConfSource(config_filename) on each raw document                *)
(***************************************************************************)
SourceInit ==
    /\ ConfInit
    /\ file.exists
    /\ NoInterp
    /\ raw \in RawDocs
    /\ source = [state |-> "loaded", as_dict |-> raw]
    /\ inlined = EmptyDict
    /\ touched = 0

\* __init__: self._preprocess(as_dict); self.as_dict = as_dict.  An
\* exception leaves no YamlToolConfSource.
Preprocess ==
    /\ source.state = "loaded"
    /\ LET r == _preprocess(source.as_dict) IN
       /\ source' = [state |-> IF r.err = "" THEN "preprocessed" ELSE r.err, as_dict |-> r.doc]
       /\ inlined' = r.doc
    /\ UNCHANGED <<raw, touched, confVars, interpVars>>

\* _preprocess run again on the as_dict it left
Reprocess ==
    /\ source.state = "preprocessed"
    /\ LET r == _preprocess(source.as_dict) IN
       source' = [state |-> IF r.err = "" THEN "reprocessed" ELSE "rerun failed", as_dict |-> r.doc]
    /\ UNCHANGED <<raw, inlined, touched, confVars, interpVars>>

\* the items of the groups as the table of the raw document declares them
DeclaredItems(d) ==
    IF ~HasKey(d, "groups") THEN {}
    ELSE UNION {{d["groups"][i]["items"][j] : j \in 1..Len(d["groups"][i]["items"])} :
                    i \in 1..Len(d["groups"])}

\* items.insert(..., group_item) puts the group's own item, the object that
\* the group table holds, into every list that refers to the group.  In the
\* raw documents no two objects that yaml.load makes for items of groups are
\* equal, and none is equal to an item of an item list, so what is equal to
\* a declared item of a group (other than a reference) is that object.
SameObject(a, b) == a = b

\* the list after  obj[key] = v  on the object obj: every place that holds
\* the object shows the change, in sections too
RECURSIVE SetInObject(_, _, _, _)
SetInObject(items, obj, key, v) ==
    [i \in 1..Len(items) |->
        IF SameObject(items[i], obj) THEN SetKey(items[i], key, v)
        ELSE IF HasKey(items[i], "items")
             THEN SetKey(items[i], "items", SetInObject(items[i]["items"], obj, key, v))
        ELSE items[i]]

\* a holder of self.as_dict changes an item that came from a group, reached
\* at place p of the item list:  as_dict["items"][p]["name"] = "nA"
Mutate ==
    /\ source.state = "preprocessed"
    /\ HasKey(source.as_dict, "items")
    /\ \E p \in 1..Len(source.as_dict["items"]) :
           LET obj == source.as_dict["items"][p] IN
           /\ obj \in DeclaredItems(raw) /\ Get(obj, "type") # "group"
           /\ touched' = p
           /\ source' = [state |-> "mutated",
                         as_dict |-> SetKey(source.as_dict, "items",
                                            SetInObject(source.as_dict["items"], obj, "name", "nA"))]
    /\ UNCHANGED <<raw, inlined, confVars, interpVars>>

SourceNext == Preprocess \/ Reprocess \/ Mutate

SourceSpec == SourceInit /\ [][SourceNext]_vars

(***************************************************************************)
(* The loop of handle_actions over a batch,  for action in actions:        *)
(* self._handle_action(as_dict, action),  on each document and batch       *)
(***************************************************************************)
\* longest batch
MaxActions == 2

\* documents read() may give: without item list, with a section nested in
\* a section, with a tool that has the id of a nested section, with a group
\* without item list
InterpDocs ==
    { EmptyDict,
      [items |-> <<>>],
      [items |-> <<SectionOf("A", <<Section("s1", "nB")>>)>>],
      [items |-> <<Tool("s1"), SectionOf("A", <<Section("s1", "nB")>>)>>],
      [items |-> <<Section("A", "nA")>>, groups |-> <<GroupDef("g1", <<>>), [id |-> "g2"]>>] }

InterpActions ==
    { create_section("s1", "Section One"),
      create_section("A", "nA"),
      create_group("g1"),
      add_item(Tool("t1")),
      add_item_to(Tool("t1"), [section |-> "s1"]),
      add_item_to(Tool("t1"), [section |-> "A"]),
      add_item_to(Tool("t1"), [group |-> "g1"]),
      add_item_to(Tool("t1"), [group |-> "g2"]),
      disable([group |-> "g1"]),
      disable([group |-> "g3"]),
      disable([section |-> "A"]) }

InterpInit ==
    /\ ConfInit
    /\ file.exists
    /\ NoSource
    /\ \E d \in InterpDocs, b \in ListsUpTo(InterpActions, MaxActions) \ {<<>>} :
           interp = [state |-> "ready", batch |-> b, start |-> d, before |-> d, doc |-> d,
                     action |-> EmptyDict, todo |-> b, err |-> ""]

\* one round of the loop: the next action is applied to as_dict; an
\* exception ends the loop
Interpret ==
    /\ interp.state \in {"ready", "applied"}
    /\ interp.todo # <<>>
    /\ LET r == _handle_action(interp.doc, Head(interp.todo)) IN
       interp' = [state |-> IF r.err = "" THEN "applied" ELSE "raised",
                  batch |-> interp.batch, start |-> interp.start,
                  before |-> interp.doc, doc |-> r.doc,
                  action |-> Head(interp.todo), todo |-> Tail(interp.todo), err |-> r.err]
    /\ UNCHANGED <<confVars, sourceVars>>

InterpNext == Interpret

InterpSpec == InterpInit /\ [][InterpNext]_vars
(***************************************************************************)
(* Properties of ManagedConf                                               *)
(***************************************************************************)
OtherCallers(c) == Callers \ {c}

Returned(c, m) == op[c] = m /\ pc[c] = "done" /\ result[c].err = ""
Raised(c, m, e) == op[c] = m /\ pc[c] = "done" /\ result[c].err = e

\* the call opened the file for writing
Wrote(c) == replaced[c] # NotWritten

\* handle_actions' update opened the file for writing: read() has given the
\* attempt a document (idx is 1 or more, and replaced started again from
\* NotWritten), and the file was opened after that
AttemptWrote(c) == idx[c] >= 1 /\ replaced[c] # NotWritten

\* exceptions raised by the action interpreter
ActionErrors == {"KeyError", "TypeError", "AssertionError", "Exception"}

\* number of items and groups in a document, at every depth
RECURSIVE TreeSize(_), ListSize(_)
TreeSize(d) ==
    (IF HasKey(d, "items") THEN ListSize(d["items"]) ELSE 0)
    + (IF HasKey(d, "groups") THEN ListSize(d["groups"]) ELSE 0)
ListSize(l) == IF l = <<>> THEN 0 ELSE 1 + TreeSize(Head(l)) + ListSize(Tail(l))

\* a section with this id is somewhere in the tree below d
RECURSIVE HasSection(_, _), AnySection(_, _)
HasSection(d, id) == HasKey(d, "items") /\ AnySection(d["items"], id)
AnySection(l, id) ==
    /\ l # <<>>
    /\ \/ /\ HasKey(Head(l), "type") /\ Head(l)["type"] = "section"
          /\ HasKey(Head(l), "id") /\ Head(l)["id"] = id
       \/ HasSection(Head(l), id)
       \/ AnySection(Tail(l), id)

\* update(doc, V) called with V the version of the persisted content, doc
\* serializing to other content
RacingUpdate(c) ==
    /\ op[c] = "update" /\ pc[c] = "done"
    /\ previous_hash[c] # FORCE_WRITE
    /\ fresh[c]
    /\ _hash(json_dump(as_dict[c])) # previous_hash[c]

\* C1: of two callers that each called update(doc, V) with the same V, the
\* version of the persisted content at both calls, exactly one wrote and
\* returned and the other raised ConcurrentWriteException without writing.
C1_ExactlyOneRacingUpdateWins ==
    \A c \in Callers : \A d \in OtherCallers(c) :
        (RacingUpdate(c) /\ RacingUpdate(d) /\ previous_hash[c] = previous_hash[d])
        => \/ /\ Returned(c, "update") /\ Wrote(c)
              /\ Raised(d, "update", "ConcurrentWriteException") /\ ~Wrote(d)
           \/ /\ Returned(d, "update") /\ Wrote(d)
              /\ Raised(c, "update", "ConcurrentWriteException") /\ ~Wrote(c)

\* C2: when handle_actions([create_section(A)]) and
\* handle_actions([create_section(B)]), the only two calls made on an empty
\* document, have both returned, the persisted document has both sections.
C2_NoLostUpdate ==
    \A c \in Callers : \A d \in OtherCallers(c) :
        ( /\ calls = 2
          /\ Returned(c, "handle_actions") /\ batch[c] = <<create_section("A", "nA")>>
          /\ Returned(d, "handle_actions") /\ batch[d] = <<create_section("B", "nB")>> )
        => /\ read(file).err = ""
           /\ HasSection(read(file).doc, "A")
           /\ HasSection(read(file).doc, "B")

\* no other caller is between its open(path, "w") and its write
NoWriteInProgress(c) == \A d \in OtherCallers(c) : pc[d] \notin {"ensure_write", "update_write"}

\* C3: update(D', V) opens the file for writing only over content of version
\* V: content that another caller's finished write changed to another
\* version is never overwritten.
C3_StaleWriteRejected ==
    \A c \in Callers :
        ( /\ op[c] = "update" /\ previous_hash[c] # FORCE_WRITE
          /\ pc[c] = "update_write" /\ NoWriteInProgress(c) )
        => replaced[c] = previous_hash[c]

\* C4: after a ConcurrentWriteException handle_actions starts its next
\* attempt with the actions it was given, names and parameters unchanged,
\* and an attempt that read the document fails only on an invalid action.
C4_RetryReappliesTheBatch ==
    \A c \in Callers :
        (op[c] = "handle_actions" /\ conflicts[c] > 0)
        => /\ pc[c] = "read" => actions[c] = batch[c]
           /\ (pc[c] = "done" /\ \A i \in 1..Len(batch[c]) : batch[c][i]["action"] \in KnownActions)
              => result[c].err \notin ActionErrors

\* actions of the batch that add a node to the document
Adding(acts) == {i \in 1..Len(acts) : acts[i]["action"] # "disable"}

\* C5: handle_actions reaches update only when every action of the batch has
\* been applied to the document read in that attempt, and an attempt in
\* which an action raised ends the call with that error and without a write.
C5_BatchNeverPartiallyPersisted ==
    \A c \in Callers :
        op[c] = "handle_actions"
        => /\ pc[c] \in {"update_check", "update_open", "update_write"}
              => /\ idx[c] = Len(batch[c]) + 1
                 /\ \A i \in 1..Len(actions[c]) : ~HasKey(actions[c][i], "action")
                 /\ TreeSize(as_dict[c]) = TreeSize(read_doc[c]) + Cardinality(Adding(batch[c]))
           /\ (AttemptWrote(c) /\ pc[c] = "done") => result[c].err = ""
           /\ (pc[c] = "done" /\ result[c].err \in ActionErrors) => ~AttemptWrote(c)

\* an action raised after an earlier action of the batch changed as_dict,
\* and the file is as it was read
C5_Witness ==
    \E c \in Callers :
        /\ Raised(c, "handle_actions", "AssertionError")
        /\ idx[c] = 2 /\ as_dict[c] # read_doc[c]
        /\ ~AttemptWrote(c)
        /\ read(file).err = "" /\ read(file).doc = read_doc[c]

\* position of the first action of the batch with an unknown name, 0 if none
FirstUnknown(acts) ==
    IF \E i \in 1..Len(acts) : acts[i]["action"] \notin KnownActions
    THEN Min({i \in 1..Len(acts) : acts[i]["action"] \notin KnownActions})
    ELSE 0

\* C6 as stated: when the unknown action raises, no action of the batch has
\* been applied to the in-memory document, and nothing is written.
C6_UnknownActionFailsBeforeAnyMutation ==
    \A c \in Callers :
        Raised(c, "handle_actions", "AssertionError")
        => as_dict[c] = read_doc[c] /\ ~AttemptWrote(c)

\* C6 amended: a batch with an unknown action is never written and never
\* returns; the error is raised when the loop reaches that action, with the
\* actions before it applied to the in-memory document and the ones after
\* it untouched.
C6_UnknownActionFailsWhenReached ==
    \A c \in Callers :
        (op[c] = "handle_actions" /\ FirstUnknown(batch[c]) > 0)
        => LET k == FirstUnknown(batch[c]) IN
           /\ pc[c] \notin {"update_check", "update_open", "update_write"}
           /\ ~Returned(c, "handle_actions")
           /\ ~AttemptWrote(c)
           /\ Raised(c, "handle_actions", "AssertionError")
              => /\ idx[c] = k
                 /\ TreeSize(as_dict[c]) = TreeSize(read_doc[c]) + (k - 1)
                 /\ \A i \in (k + 1)..Len(batch[c]) : actions[c][i] = batch[c][i]

C6_Witness ==
    \E c \in Callers :
        /\ Raised(c, "handle_actions", "AssertionError")
        /\ FirstUnknown(batch[c]) = 2 /\ idx[c] = 2
        /\ TreeSize(as_dict[c]) = TreeSize(read_doc[c]) + 1

\* C7: add_item with target {section: "t1"} on a document with no section
\* t1 raises, is not retried, and leaves the in-memory and the persisted
\* document unchanged.
C7_UnresolvedSectionTargetFails ==
    \A c \in Callers :
        ( /\ op[c] = "handle_actions"
          /\ batch[c] = <<add_item_to(Tool("B"), [section |-> "t1"])>>
          /\ idx[c] >= 1 /\ pc[c] # "apply"
          /\ ~HasSection(read_doc[c], "t1") )
        => /\ pc[c] = "done" /\ result[c].err \in ActionErrors
           /\ as_dict[c] = read_doc[c]
           /\ ~AttemptWrote(c) /\ conflicts[c] = 0

\* C8: after update(D, FORCE_WRITE) with no other caller changing the file
\* during or after it, update has returned and read() gives D and the hash
\* of the serialization of D, whatever was persisted before.
C8_ForceWriteThenRead ==
    \A c \in Callers :
        (op[c] = "update" /\ previous_hash[c] = FORCE_WRITE /\ pc[c] = "done" /\ alone[c])
        => /\ result[c].err = ""
           /\ read(file) = [err |-> "", hash |-> _hash(json_dump(as_dict[c])), doc |-> as_dict[c]]

\* a forced update that created the file, and one that replaced longer content
C8_Witness ==
    \E c \in Callers :
        /\ Returned(c, "update") /\ previous_hash[c] = FORCE_WRITE /\ alone[c]
        /\ replaced[c] = Absent
        /\ read(file).doc = as_dict[c]

\* C9: a read() of the file returns, and what it returns is the hash and the
\* parse of a complete serialized document.
C9_ReadSeesOnlyCommittedContent ==
    \A c \in Callers :
        (op[c] = "read" /\ pc[c] = "done" /\ result[c].err # "IOError")
        => /\ result[c].err = ""
           /\ result[c].hash = _hash(json_dump(result[c].doc))

\* C18: ensure_exists, called directly or by handle_actions, opens the file
\* for writing only when there is no persisted document: a complete
\* document, whoever wrote it and whenever, is never truncated by it.
C18_EnsureExistsKeepsContent ==
    [][\A c \in Callers :
          (pc[c] = "ensure_open" /\ pc'[c] = "ensure_write")
          => ~(file.exists /\ read(file).err = "")]_vars

\* an attempt of c's handle_actions ends in a retry only when the content
\* is not the content it read, and another caller has written to the file
C19_RetryOnlyAfterChange ==
    [][\A c \in Callers :
          conflicts'[c] > conflicts[c] => (Version(file) # previous_hash[c] /\ ~alone[c])]_vars

\* after a conflict, some handle_actions call has returned or will return
C19_SomeCallCompletes ==
    \A c \in Callers :
        (op[c] = "handle_actions" /\ conflicts[c] > 0)
        ~> (\E d \in Callers : Returned(d, "handle_actions"))

\* a call that was started ends
C19_EveryCallTerminates ==
    \A c \in Callers : (pc[c] # "idle") ~> (pc[c] = "done")

\* C19: with handle_actions calls only and every caller going on with its
\* method, an attempt is retried only after another caller's write changed
\* the content it read, after a conflict some call returns, and every call
\* ends.
C19_RetryIsLivelockFree ==
    /\ C19_RetryOnlyAfterChange
    /\ C19_SomeCallCompletes
    /\ C19_EveryCallTerminates

(***************************************************************************)
(* Properties of YamlToolConfSource._preprocess                            *)
(***************************************************************************)
\* the group table of a raw document: as_dict.pop("groups", [])
GroupsOf(d) == IF HasKey(d, "groups") THEN d["groups"] ELSE <<>>

\* the list with each group reference replaced, at its own position, by the
\* items of the group, in sections too
RECURSIVE Flattened(_, _)
Flattened(items, gm) ==
    IF items = <<>> THEN <<>>
    ELSE LET item == Head(items) IN
         (IF Get(item, "type") = "group" THEN gm[item["id"]]
          ELSE IF Get(item, "type") = "section" /\ HasKey(item, "items")
               THEN <<SetKey(item, "items", Flattened(item["items"], gm))>>
          ELSE <<item>>)
         \o Flattened(Tail(items), gm)

\* C10: the item list that _preprocess leaves is the original list with each
\* group reference replaced at its own position by the group's effective
\* items, the other items keeping their order, in nested sections too.
C10_InlinerFlattens ==
    source.state = "preprocessed"
    => source.as_dict["items"] = Flattened(raw["items"], group_map(GroupsOf(raw)))

\* the first _preprocess returned / raised
Inlined == source.state \in {"preprocessed", "reprocessed", "rerun failed", "mutated"}
FailedToInline == source.state \in {"KeyError", "ValueError"}

GroupIds(d) == {GroupsOf(d)[i]["id"] : i \in 1..Len(GroupsOf(d))}

\* every reference of the list, at any depth, names one of the ids
RECURSIVE RefsKnown(_, _)
RefsKnown(items, ids) ==
    \A i \in 1..Len(items) :
        /\ Get(items[i], "type") = "group" => Get(items[i], "id") \in ids
        /\ HasKey(items[i], "items") => RefsKnown(items[i]["items"], ids)

\* every reference of the document names a group of its table, in the item
\* lists and in the items of the groups
AllRefsKnown(d) ==
    /\ RefsKnown(d["items"], GroupIds(d))
    /\ \A i \in 1..Len(GroupsOf(d)) : RefsKnown(GroupsOf(d)[i]["items"], GroupIds(d))

NoGroupRef(d) == ~HasKey(d, "items") \/ ~HasGroupRef(d["items"])

\* C11: after _preprocess returned on a raw document whose references all
\* name groups of the table, no item of type group is left in the item list
\* or in a section of it at any depth.
C11_NoGroupRemains ==
    (Inlined /\ AllRefsKnown(raw)) => NoGroupRef(inlined)

\* number of items of the list, and of its sections at any depth, that are in S
RECURSIVE CountOf(_, _)
CountOf(items, S) ==
    IF items = <<>> THEN 0
    ELSE (IF Head(items) \in S THEN 1 ELSE 0)
         + (IF HasKey(Head(items), "items") THEN CountOf(Head(items)["items"], S) ELSE 0)
         + CountOf(Tail(items), S)

\* the list without its items that are in S, in sections too
RECURSIVE Strike(_, _)
Strike(items, S) ==
    IF items = <<>> THEN <<>>
    ELSE (IF Head(items) \in S THEN <<>>
          ELSE IF HasKey(Head(items), "items")
               THEN <<SetKey(Head(items), "items", Strike(Head(items)["items"], S))>>
          ELSE <<Head(items)>>)
         \o Strike(Tail(items), S)

\* the groups of the table with enabled = false, their references and the
\* items they declare
DisabledGroups(d) ==
    {i \in 1..Len(GroupsOf(d)) : HasKey(GroupsOf(d)[i], "enabled") /\ ~GroupsOf(d)[i]["enabled"]}
DisabledRefs(d) == {Ref(GroupsOf(d)[i]["id"]) : i \in DisabledGroups(d)}
DisabledItems(d) ==
    UNION {{GroupsOf(d)[i]["items"][j] : j \in 1..Len(GroupsOf(d)[i]["items"])} : i \in DisabledGroups(d)}
AnyRef(d) == {Ref(id) : id \in GroupIds(d)}

\* C12: on a raw document that refers to a group with enabled = false
\* _preprocess returns; no reference to that group is left, none of the
\* items the group declares has been inserted, and the items that are
\* neither references nor came from another group are all there, in the
\* order they had, in every list.
C12_DisabledGroupContributesNothing ==
    (~(source.state = "loaded") /\ AllRefsKnown(raw) /\ CountOf(raw["items"], DisabledRefs(raw)) >= 1)
    => /\ Inlined
       /\ CountOf(inlined["items"], DisabledRefs(raw)) = 0
       /\ CountOf(inlined["items"], DisabledItems(raw)) = 0
       /\ Strike(inlined["items"], DeclaredItems(raw)) = Strike(raw["items"], AnyRef(raw))

\* the disabled group is referred to in a section and in the item list,
\* between items that stay
C12_Witness ==
    /\ source.state = "preprocessed"
    /\ CountOf(raw["items"], DisabledRefs(raw)) = 2
    /\ Len(raw["items"]) = 3 /\ raw["items"][2] = Ref("g1") /\ raw["items"][3] = Tool("x")
    /\ Len(inlined["items"]) = 2

\* C13: _preprocess on a document with neither group table nor group
\* reference returns and leaves the document as it was, nested item lists
\* included: on such a raw document, and on a document that _preprocess
\* left without references.
C13_InlineWithoutGroupsIsNoOp ==
    /\ (~(source.state = "loaded") /\ ~HasKey(raw, "groups") /\ NoGroupRef(raw))
       => Inlined /\ inlined = raw
    /\ (source.state \in {"reprocessed", "rerun failed"} /\ NoGroupRef(inlined))
       => source.state = "reprocessed" /\ source.as_dict = inlined

\* the second run was on a document with a section that holds inlined items
C13_Witness ==
    /\ source.state = "reprocessed"
    /\ NoGroupRef(inlined)
    /\ \E i \in 1..Len(inlined["items"]) :
           /\ Get(inlined["items"][i], "type") = "section"
           /\ HasKey(inlined["items"][i], "items")
           /\ Len(inlined["items"][i]["items"]) = 4
    /\ source.as_dict = inlined /\ raw # inlined

\* C17: after an item of one inlined occurrence of a group was changed,
\* every other place of the item list is as _preprocess left it.
C17_InlinedOccurrencesAreIndependent ==
    source.state = "mutated"
    => \A q \in 1..Len(inlined["items"]) :
           q # touched => source.as_dict["items"][q] = inlined["items"][q]

(***************************************************************************)
(* Properties of the action interpreter                                    *)
(***************************************************************************)
ItemsOf(d) == IF HasKey(d, "items") THEN d["items"] ELSE <<>>

IsSection(item, id) == Get(item, "type") = "section" /\ Get(item, "id") = id

\* the list with item appended to the item list of the first section with
\* this id, searched depth first; the list as it is without such a section
RECURSIVE AppendToSection(_, _, _)
AppendToSection(items, id, item) ==
    IF items = <<>> THEN <<>>
    ELSE LET h == Head(items) IN
         IF IsSection(h, id)
         THEN <<SetKey(h, "items", Append(ItemsOf(h), item))>> \o Tail(items)
         ELSE IF HasSection(h, id)
         THEN <<SetKey(h, "items", AppendToSection(h["items"], id, item))>> \o Tail(items)
         ELSE <<h>> \o AppendToSection(Tail(items), id, item)

\* the group table with item appended to the item list of the group with this id
AppendToGroup(groups, id, item) ==
    LET first == Min({i \in 1..Len(groups) : Get(groups[i], "id") = id}) IN
    [i \in 1..Len(groups) |->
        IF i = first THEN SetKey(groups[i], "items", Append(ItemsOf(groups[i]), item)) ELSE groups[i]]

HasGroup(d, id) == \E i \in 1..Len(GroupsOf(d)) : Get(GroupsOf(d)[i], "id") = id

\* the document with the item of an add_item action appended to the list
\* the action names, nothing else changed
WithItemAdded(d, action) ==
    IF ~HasKey(action, "target") THEN SetKey(d, "items", Append(ItemsOf(d), action["item"]))
    ELSE IF HasKey(action["target"], "group") THEN
        IF HasGroup(d, action["target"]["group"])
        THEN SetKey(d, "groups", AppendToGroup(d["groups"], action["target"]["group"], action["item"]))
        ELSE d
    ELSE IF HasKey(action["target"], "section") /\ HasSection(d, action["target"]["section"])
    THEN SetKey(d, "items", AppendToSection(d["items"], action["target"]["section"], action["item"]))
    ELSE d

\* the last action applied was this kind of action
Last(name) == interp.state \in {"applied", "raised"} /\ interp.action["action"] = name

\* C14: an add_item that returned has appended its item to one list, the
\* root item list without target, the item list of the target section or
\* group with one (made when absent), and changed nothing else; and
\* create_section(s1, "Section One"), add_item(t1, target {section: s1}) on
\* {items: []} leave one section s1 whose items are [t1].
C14_AddItemAppendsToItsTarget ==
    /\ (Last("add_item") /\ interp.state = "applied")
       => interp.doc = WithItemAdded(interp.before, interp.action)
    /\ ( /\ interp.start = [items |-> <<>>]
         /\ interp.batch = <<create_section("s1", "Section One"),
                             add_item_to(Tool("t1"), [section |-> "s1"])>>
         /\ interp.todo = <<>> )
       => /\ interp.state = "applied"
          /\ interp.doc = [items |-> <<[type |-> "section", name |-> "Section One", id |-> "s1",
                                        items |-> <<Tool("t1")>>]>>]

\* C15: add_item with target {section: id} returns whenever the document
\* has a section with that id, at any depth, and has then appended to that
\* section; it never appends when there is no such section.
C15_SectionTargetSearchesTheTree ==
    (Last("add_item") /\ HasKey(interp.action, "target") /\ HasKey(interp.action["target"], "section"))
    => LET id == interp.action["target"]["section"] IN
       /\ HasSection(interp.before, id)
          => /\ interp.state = "applied"
             /\ interp.doc = WithItemAdded(interp.before, interp.action)
       /\ ~HasSection(interp.before, id)
          => interp.state = "raised" /\ interp.doc = interp.before

\* no two items of the list that have an id have the same id
UniqueIn(items) ==
    \A i, j \in 1..Len(items) :
        (i # j /\ HasKey(items[i], "id") /\ HasKey(items[j], "id")) => items[i]["id"] # items[j]["id"]

\* ... in the list and in the item list of each section of it, at any depth
RECURSIVE UniqueBelow(_)
UniqueBelow(items) ==
    /\ UniqueIn(items)
    /\ \A i \in 1..Len(items) : HasKey(items[i], "items") => UniqueBelow(items[i]["items"])

UniqueIds(d) == UniqueBelow(ItemsOf(d)) /\ UniqueIn(GroupsOf(d))

\* C16: the actions applied so far to a document in which ids are unique
\* within the root item list, within each section's item list and within
\* the group table, have left a document in which they still are.
C16_IdsStayUnique ==
    UniqueIds(interp.start) => UniqueIds(interp.doc)

\* the group table with enabled = false set on the group with this id
DisabledIn(groups, id) ==
    LET first == Min({i \in 1..Len(groups) : Get(groups[i], "id") = id}) IN
    [i \in 1..Len(groups) |-> IF i = first THEN SetKey(groups[i], "enabled", FALSE) ELSE groups[i]]

\* C20: disable with target {group: id} on a document with that group
\* returns, that group has enabled = false and nothing else has changed;
\* disable with a target without group key raises; disable of a group that
\* is not in the table, or without table, raises; when it raises the
\* document is as it was.
C20_DisableOnlyGroups ==
    Last("disable")
    => LET target == interp.action["target"] IN
       IF HasKey(target, "group") /\ HasGroup(interp.before, target["group"])
       THEN /\ interp.state = "applied"
            /\ interp.doc = SetKey(interp.before, "groups",
                                    DisabledIn(interp.before["groups"], target["group"]))
       ELSE /\ interp.state = "raised"
            /\ interp.doc = interp.before

\* a group made by the action before was disabled, the other groups and the
\* items staying as they were
C20_Witness ==
    /\ Last("disable") /\ interp.state = "applied"
    /\ Len(interp.before["groups"]) = 3
    /\ interp.doc["groups"][1]["enabled"] = FALSE
    /\ ~HasKey(interp.before["groups"][1], "enabled")
    /\ interp.doc["items"] = interp.start["items"] /\ interp.doc["items"] # <<>>

====
